---- MODULE Spec2Model ----
(***************************************************************************)
(* Model of the broker core (src/Broker/broker/core.py): ClassLoader,      *)
(* TaskBuilder, Task and the startup/execute runner.                       *)
(*                                                                         *)
(* Identifiers are sequences of one-character strings so that the          *)
(* separator test and rsplit are computed, not assumed.  Plugin classes,   *)
(* the importable modules and the behaviour of pull/transform/push are the *)
(* environment of the core: a fixed registry plus nondeterministic raises. *)
(***************************************************************************)
EXTENDS Integers, Sequences, FiniteSets, TLC

(* ------------------------------ bounds --------------------------------- *)
MaxTasks == 2
MaxInterceptors == 2
MaxIdLen == 3

(* --------------------------- small helpers ----------------------------- *)
None == [none |-> TRUE]

Range(s) == {s[i] : i \in 1..Len(s)}

SeqsUpTo(S, n) == UNION {[1..k -> S] : k \in 0..n}

Keys(kv) == {p[1] : p \in kv}

(* ------------------- the plugin environment (registry) ----------------- *)
\* Modules that importlib.import_module can import.
Modules == {<<"m">>, <<"p", ".", "m">>}

\* A class object: its base capabilities and what its constructor accepts.
Class(name, bases, nargs, kwnames, varkw, raises) ==
    [isclass |-> TRUE, name |-> name, bases |-> bases, nargs |-> nargs,
     kwnames |-> kwnames, varkw |-> varkw, raises |-> raises]

\* A module attribute that is not a class (a function, a constant).
NonClass(name) ==
    [isclass |-> FALSE, name |-> name, bases |-> {}, nargs |-> {},
     kwnames |-> {}, varkw |-> FALSE, raises |-> FALSE]

\* Attributes of every importable module, by attribute name.
ModuleAttrs ==
    { Class(<<"S">>, {"EndpointBase", "SourceEndpointBase"}, {1}, {}, TRUE, FALSE),
      Class(<<"D">>, {"EndpointBase", "DestinationEndpointBase"}, {1}, {}, TRUE, FALSE),
      Class(<<"K">>, {"EndpointBase", "SourceEndpointBase"}, {1}, {"task_name"}, FALSE, FALSE),
      Class(<<"Q">>, {"SourceEndpointBase", "DestinationEndpointBase"}, {1}, {}, TRUE, FALSE),
      Class(<<"E">>, {"EndpointBase"}, {1}, {}, TRUE, FALSE),
      Class(<<"A">>, {"InterceptorBase"}, {0}, {}, FALSE, FALSE),
      Class(<<"B">>, {"InterceptorBase"}, {0}, {}, FALSE, FALSE),
      Class(<<"L">>, {"LoggerBase"}, {0}, {}, FALSE, FALSE),
      Class(<<"O">>, {}, {0, 1}, {}, TRUE, FALSE),
      Class(<<"X">>, {"EndpointBase", "SourceEndpointBase", "DestinationEndpointBase",
                      "InterceptorBase", "LoggerBase"}, {0, 1}, {}, TRUE, TRUE),
      NonClass(<<"f">>) }

\* hasattr(module, class_name)
hasattr(module, class_name) == \E a \in ModuleAttrs : a.name = class_name

\* getattr(module, class_name)
getattr(module, class_name) == CHOOSE a \in ModuleAttrs : a.name = class_name

\* None passes every capability test.
issubclass_type_null(obj, base) ==
    \/ obj = None
    \/ base \in obj.bases

\* issubclass(type(obj), base); type(None) is NoneType, a subclass of no base.
issubclass_type(obj, base) ==
    /\ obj # None
    /\ base \in obj.bases

(* ------------------------------ ClassLoader ---------------------------- *)
\* '.' in full_class_name
HasSeparator(full_class_name) == \E i \in 1..Len(full_class_name) : full_class_name[i] = "."

\* Position of the first separator, 0 when there is none.
LastSeparator_first(s) ==
    LET at == {i \in 1..Len(s) : s[i] = "."} IN
    IF at = {} THEN 0 ELSE CHOOSE i \in at : \A j \in at : i <= j

\* Position of the last separator, 0 when there is none.
LastSeparator(s) ==
    LET at == {i \in 1..Len(s) : s[i] = "."} IN
    IF at = {} THEN 0 ELSE CHOOSE i \in at : \A j \in at : j <= i

\* full_class_name.rsplit('.', maxsplit=1)
get_module_name_and_class_name(full_class_name) ==
    LET i == LastSeparator(full_class_name) IN
    IF i = 0 THEN <<full_class_name>>
    ELSE <<SubSeq(full_class_name, 1, i - 1),
           SubSeq(full_class_name, i + 1, Len(full_class_name))>>

\* importlib.import_module(module_name): the exception it raises, or "ok".
import_module(module_name) ==
    IF module_name = <<>> THEN "ValueError"
    ELSE IF Head(module_name) = "." THEN "TypeError"
    ELSE IF module_name \in Modules THEN "ok"
    ELSE "ModuleNotFoundError"

\* Outcomes of a call: a returned value or a raised exception, with the
\* loading steps (import, attribute lookup, construction) it performed.
Return(value, events) ==
    [raised |-> FALSE, value |-> value, exc |-> "", key |-> "", events |-> events]

Raise(exc, key, events) ==
    [raised |-> TRUE, value |-> None, exc |-> exc, key |-> key, events |-> events]

LoadEvent(op, id, args, kwargs) == [op |-> op, id |-> id, args |-> args, kwargs |-> kwargs]

\* _class(*args, **kwargs): does the constructor raise?
ConstructorRaises(_class, args, kwargs) ==
    \/ _class.raises
    \/ Len(args) \notin _class.nargs
    \/ (~_class.varkw /\ ~(Keys(kwargs) \subseteq _class.kwnames))

\* The instance a successful construction yields.
Instance(_class, args, kwargs) ==
    [none |-> FALSE, cls |-> _class.name, bases |-> _class.bases,
     args |-> args, kwargs |-> kwargs]

\* The message of the exception the constructor raises: the arguments are
\* bound before the body of __init__ runs.
ConstructorError(_class, args, kwargs) ==
    IF \/ Len(args) \notin _class.nargs
       \/ (~_class.varkw /\ ~(Keys(kwargs) \subseteq _class.kwnames))
    THEN "__init__() got unexpected arguments"
    ELSE "plugin failed"

\* The exception of the constructor leaves init_class as it is.
init_class_uncaught(_class, args, kwargs, events) ==
    IF ~_class.isclass THEN Return(None, events)
    ELSE LET ev == Append(events, LoadEvent("construct", _class.name, args, kwargs)) IN
         IF ConstructorRaises(_class, args, kwargs)
         THEN Raise("Exception", ConstructorError(_class, args, kwargs), ev)
         ELSE Return(Instance(_class, args, kwargs), ev)

\* ClassLoader.init_class; the ClassLoaderException carries the message of
\* the exception it replaces.
init_class(_class, args, kwargs, events) ==
    IF ~_class.isclass THEN Return(None, events)
    ELSE LET ev == Append(events, LoadEvent("construct", _class.name, args, kwargs)) IN
         IF ConstructorRaises(_class, args, kwargs)
         THEN Raise("ClassLoaderException", ConstructorError(_class, args, kwargs), ev)
         ELSE Return(Instance(_class, args, kwargs), ev)

\* A type that the module does not have is an error.
load_class_strict(module_name, class_name, args, kwargs) ==
    LET imp == import_module(module_name)
        ev1 == <<LoadEvent("import", module_name, <<>>, {})>>
    IN IF imp = "ModuleNotFoundError"
       THEN Raise("ClassLoaderException", "module", ev1)
       ELSE IF imp # "ok"
       THEN Raise(imp, "module", ev1)
       ELSE LET ev2 == Append(ev1, LoadEvent("hasattr", class_name, <<>>, {})) IN
            IF hasattr(module_name, class_name)
            THEN init_class(getattr(module_name, class_name), args, kwargs, ev2)
            ELSE Raise("ClassLoaderException", "class", ev2)

\* ClassLoader.load, lines 120-129: import the module, look the class up.
load_class(module_name, class_name, args, kwargs) ==
    LET imp == import_module(module_name)
        ev1 == <<LoadEvent("import", module_name, <<>>, {})>>
    IN IF imp = "ModuleNotFoundError"
       THEN Raise("ClassLoaderException", "module", ev1)
       ELSE IF imp # "ok"
       THEN Raise(imp, "module", ev1)
       ELSE LET ev2 == Append(ev1, LoadEvent("hasattr", class_name, <<>>, {})) IN
            IF hasattr(module_name, class_name)
            THEN init_class(getattr(module_name, class_name), args, kwargs, ev2)
            ELSE Return(None, ev2)

\* The separator test is missing: the name is split with rpartition, which
\* gives an empty module name when there is no separator.
load_unchecked(full_class_name, args, kwargs) ==
    load_class(SubSeq(full_class_name, 1, LastSeparator(full_class_name) - 1),
               SubSeq(full_class_name, LastSeparator(full_class_name) + 1, Len(full_class_name)),
               args, kwargs)

\* ClassLoader.load
load(full_class_name, args, kwargs) ==
    IF ~HasSeparator(full_class_name)
    THEN Raise("ClassLoaderException", "name", <<>>)
    ELSE LET parts == get_module_name_and_class_name(full_class_name) IN
         load_class(parts[1], parts[2], args, kwargs)

(* ------------------------------ TaskBuilder ---------------------------- *)
\* Python None as a keyword-argument value.
NoneValue == "<None>"

\* The keyword arguments already present win over the explicit args.
MergeArgs_keep(kwargs, args) == kwargs \cup {p \in args : p[1] \notin Keys(kwargs)}

\* for key in args: kwargs[key] = args[key]
MergeArgs(kwargs, args) == {p \in kwargs : p[1] \notin Keys(args)} \cup args

\* TaskBuilder.__build_endpoint, lines 99-105: the checks on what load gave.
check_endpoint(endpoint) ==
    IF endpoint.raised THEN endpoint
    ELSE IF endpoint.value = None
    THEN Raise("TaskBuilderException", "load", endpoint.events)
    ELSE IF ~issubclass_type(endpoint.value, "EndpointBase")
    THEN Raise("TaskBuilderException", "EndpointBase", endpoint.events)
    ELSE endpoint

\* TaskBuilder.__build_endpoint; a KeyError is reported with the missing key.
build_endpoint(_endpoint, kwargs) ==
    IF "class" \notin DOMAIN _endpoint THEN Raise("KeyError", "class", <<>>)
    ELSE IF "args" \notin DOMAIN _endpoint THEN Raise("KeyError", "args", <<>>)
    ELSE check_endpoint(load(_endpoint["class"], <<_endpoint>>,
                             MergeArgs(kwargs, _endpoint["args"])))

\* The Source/Destination capability is not checked.
check_capability_none(endpoint, base) == endpoint

\* The capability check of __build_source_endpoint (base SourceEndpointBase)
\* and of __build_destination_endpoint (base DestinationEndpointBase).
check_capability(endpoint, base) ==
    IF endpoint.raised THEN endpoint
    ELSE IF ~issubclass_type(endpoint.value, base)
    THEN Raise("TaskBuilderException", base, endpoint.events)
    ELSE endpoint

\* TaskBuilder.__build_source_endpoint
build_source_endpoint(_source, kwargs) ==
    check_capability(build_endpoint(_source, kwargs), "SourceEndpointBase")

\* TaskBuilder.__build_destination_endpoint
build_destination_endpoint(_source, kwargs) ==
    check_capability(build_endpoint(_source, kwargs), "DestinationEndpointBase")

\* TaskBuilder.__build_interceptors: the loop from position k on, with the
\* interceptors built so far; add_interceptor is the loop body once
\* ClassLoader.load has answered.
RECURSIVE build_interceptors_from(_, _, _, _)
RECURSIVE add_interceptor(_, _, _, _, _)
RECURSIVE add_interceptor_prepend(_, _, _, _, _)
\* The interceptor is put in front of the list instead of at its end.
add_interceptor_prepend(_interceptors, k, interceptors, events, interceptor) ==
    IF interceptor.raised
    THEN Raise(interceptor.exc, interceptor.key, events \o interceptor.events)
    ELSE IF ~issubclass_type(interceptor.value, "InterceptorBase")
    THEN Raise("TaskBuilderException", "InterceptorBase", events \o interceptor.events)
    ELSE build_interceptors_from(_interceptors, k + 1,
                                 <<interceptor.value>> \o interceptors,
                                 events \o interceptor.events)

add_interceptor(_interceptors, k, interceptors, events, interceptor) ==
    IF interceptor.raised
    THEN Raise(interceptor.exc, interceptor.key, events \o interceptor.events)
    ELSE IF ~issubclass_type(interceptor.value, "InterceptorBase")
    THEN Raise("TaskBuilderException", "InterceptorBase", events \o interceptor.events)
    ELSE build_interceptors_from(_interceptors, k + 1,
                                 Append(interceptors, interceptor.value),
                                 events \o interceptor.events)

build_interceptors_from(_interceptors, k, interceptors, events) ==
    IF k > Len(_interceptors) THEN Return(interceptors, events)
    ELSE add_interceptor(_interceptors, k, interceptors, events,
                         load(_interceptors[k], <<>>, {}))

build_interceptors(_interceptors) == build_interceptors_from(_interceptors, 1, <<>>, <<>>)

\* Task.__init__; has_interceptors is FALSE when interceptors is None.
Task(source, destination, has_interceptors, interceptors) ==
    [source |-> source, destination |-> destination,
     has_interceptors |-> has_interceptors, interceptors |-> interceptors]

\* TaskBuilder.build, line 55, once the interceptors are built.
build_task_interceptors(src, dst, ins) ==
    IF ins.raised THEN Raise(ins.exc, ins.key, src.events \o dst.events \o ins.events)
    ELSE Return(Task(src.value, dst.value, TRUE, ins.value),
                src.events \o dst.events \o ins.events)

\* TaskBuilder.build, lines 51-55, once the destination is built.
build_task_destination(_task, src, dst) ==
    IF dst.raised THEN Raise(dst.exc, dst.key, src.events \o dst.events)
    ELSE IF "interceptors" \notin DOMAIN _task
    THEN Return(Task(src.value, dst.value, FALSE, <<>>), src.events \o dst.events)
    ELSE build_task_interceptors(src, dst, build_interceptors(_task["interceptors"]))

\* TaskBuilder.build, lines 49-55, once the source is built.
build_task_source(_task, kwargs, src) ==
    IF src.raised THEN src
    ELSE IF "destination" \notin DOMAIN _task
    THEN Raise("KeyError", "destination", src.events)
    ELSE build_task_destination(_task, src,
                                build_destination_endpoint(_task["destination"], kwargs))

\* TaskBuilder.build, lines 44-46: the keyword argument task_name=name.
task_name(_task) ==
    {<<"task_name", IF "name" \in DOMAIN _task THEN _task["name"] ELSE NoneValue>>}

\* The body of the try block of TaskBuilder.build for one specification.
build_task(_task) ==
    IF "source" \notin DOMAIN _task THEN Raise("KeyError", "source", <<>>)
    ELSE build_task_source(_task, task_name(_task),
                           build_source_endpoint(_task["source"], task_name(_task)))

\* The KeyError is not translated.
except_KeyError_raw(r) == r

\* except KeyError as e: raise TaskBuilderException(f"{e} not found in config file.")
except_KeyError(r) ==
    IF r.raised /\ r.exc = "KeyError"
    THEN Raise("TaskBuilderException", r.key, r.events)
    ELSE r

\* TaskBuilder.build: the loop from specification k on; append_task is the
\* loop body once the try block has answered.
RECURSIVE build_from(_, _, _, _)
RECURSIVE append_task(_, _, _, _, _)
append_task(specs, k, tasks, events, r) ==
    IF r.raised THEN Raise(r.exc, r.key, events \o r.events)
    ELSE build_from(specs, k + 1, Append(tasks, r.value), events \o r.events)

build_from(specs, k, tasks, events) ==
    IF k > Len(specs) THEN Return(tasks, events)
    ELSE append_task(specs, k, tasks, events, except_KeyError(build_task(specs[k])))

build(specs) == build_from(specs, 1, <<>>, <<>>)

(* --------------------------- configurations ---------------------------- *)
Id(module_name, class_name) == module_name \o <<".">> \o class_name

Endpoint(class, args) == [class |-> class, args |-> args]

ValidSource == Endpoint(Id(<<"m">>, <<"S">>), {})
ValidDestination == Endpoint(Id(<<"m">>, <<"D">>), {})

\* Source specifications: resolvable and not, with and without arguments.
SourceSpecs ==
    { Endpoint(c, {}) : c \in { Id(<<"p", ".", "m">>, <<"S">>), Id(<<"m">>, <<"K">>),
                                 Id(<<"m">>, <<"D">>), Id(<<"m">>, <<"Q">>),
                                 Id(<<"m">>, <<"Z">>), <<"S">>,
                                 Id(<<"n">>, <<"S">>), Id(<<"m">>, <<"X">>) } }
    \cup { Endpoint(Id(<<"m">>, <<"S">>), {<<"k", "v">>}),
           Endpoint(Id(<<"m">>, <<"S">>), {<<"task_name", "u">>}),
           Endpoint(Id(<<"m">>, <<"K">>), {<<"k", "v">>}),
           [args |-> {}],
           [class |-> Id(<<"m">>, <<"S">>)] }

DestinationSpecs ==
    { Endpoint(c, {}) : c \in { Id(<<"m">>, <<"S">>), Id(<<"m">>, <<"E">>),
                                 Id(<<"m">>, <<"Z">>), <<"D">>, Id(<<"m">>, <<"X">>) } }

InterceptorIds == { Id(<<"m">>, <<"A">>), Id(<<"m">>, <<"B">>) }

BadInterceptorIds ==
    { Id(<<"m">>, <<"Z">>), Id(<<"m">>, <<"S">>), Id(<<"m">>, <<"O">>), <<"A">> }

\* Interceptor lists: every list of interceptor classes, and those lists
\* followed by one identifier that cannot be used as an interceptor.
InterceptorLists ==
    SeqsUpTo(InterceptorIds, MaxInterceptors)
    \cup { Append(l, b) : l \in SeqsUpTo(InterceptorIds, MaxInterceptors - 1),
                          b \in BadInterceptorIds }

TaskSpecs ==
    { [source |-> ValidSource, destination |-> ValidDestination] }
    \cup { [source |-> ValidSource, destination |-> ValidDestination, interceptors |-> l] :
             l \in InterceptorLists }
    \cup { [source |-> s, destination |-> ValidDestination] : s \in SourceSpecs }
    \cup { [name |-> "t", source |-> s, destination |-> ValidDestination] :
             s \in { ValidSource, Endpoint(Id(<<"m">>, <<"S">>), {<<"task_name", "u">>}) } }
    \cup { [source |-> ValidSource, destination |-> d] : d \in DestinationSpecs }
    \cup { [destination |-> ValidDestination],
           [source |-> ValidSource],
           [name |-> "t"],
           [source |-> Endpoint(Id(<<"m">>, <<"Z">>), {})] }

\* The specifications that fill the other positions of a task list.
FewTaskSpecs ==
    { [source |-> ValidSource, destination |-> ValidDestination],
      [name |-> "a", source |-> ValidSource, destination |-> ValidDestination,
       interceptors |-> <<Id(<<"m">>, <<"A">>)>>],
      [source |-> ValidSource] }

LoggerIds ==
    { Id(<<"m">>, <<"L">>), Id(<<"m">>, <<"O">>), Id(<<"m">>, <<"Z">>), <<"L">>,
      Id(<<"n">>, <<"L">>), Id(<<"m">>, <<"X">>), Id(<<"m">>, <<"f">>), <<".", "L">> }

\* Task lists of up to MaxTasks specifications: any specification at one
\* position, at any place in the list, among specifications of FewTaskSpecs.
TaskLists ==
    UNION { { [i \in 1..k |-> IF i = j THEN t ELSE f[i]] :
                j \in 1..k, t \in TaskSpecs, f \in [1..k -> FewTaskSpecs] } :
            k \in 0..MaxTasks }
    \cup { <<>> }

\* The attributes of the config module: LOGGER and TASKS are both optional.
Configs ==
    { [TASKS |-> t] : t \in TaskLists }
    \cup { [LOGGER |-> l, TASKS |-> t] : l \in LoggerIds, t \in SeqsUpTo(FewTaskSpecs, MaxTasks) }
    \cup { [LOGGER |-> l] : l \in LoggerIds }
    \cup { [name |-> "config"] }

(* ------------------------------ the plugins ---------------------------- *)
\* What source.pull() returns: the payload of that source.
pull(source) == <<source.cls>>

\* What interceptor.transform(content) returns.
transform(interceptor, content) == Append(content, interceptor.cls)

\* The logger installed by broker.loggers before startup.
DefaultLogger ==
    [none |-> FALSE, cls |-> <<"default">>, bases |-> {"LoggerBase"}, args |-> <<>>, kwargs |-> {}]

\* An entry of the call history: the method op called on plugin `on` of task
\* number `task` with argument arg, and what it returned or that it raised.
Call(task, op, on, arg, res, raised) ==
    [task |-> task, op |-> op, on |-> on, arg |-> arg, res |-> res, raised |-> raised]

\* A line printed or logged by the process.
Msg(exc, key) == [exc |-> exc, key |-> key]

(* --------------------- requests to the class loader -------------------- *)
Chars == {"m", "n", ".", "S", "A", "Z", "f"}

LoadRequest(id, args, kwargs) == [id |-> id, args |-> args, kwargs |-> kwargs]

NoRequest == LoadRequest(<<>>, <<>>, {})

\* Every identifier up to MaxIdLen characters and the identifiers of the
\* configurations, loaded as an interceptor or logger is (no arguments) and
\* as an endpoint is (the specification and the task name).
LoadRequests ==
    { LoadRequest(id, a[1], a[2]) :
        id \in SeqsUpTo(Chars, MaxIdLen)
                \cup {Id(<<"p", ".", "m">>, <<"S">>), Id(<<"m">>, <<"X">>), Id(<<"m">>, <<"K">>)},
        a \in { <<<<>>, {}>>, <<<<ValidSource>>, {<<"task_name", "t">>, <<"k", "v">>}>> } }

(* ------------------------------ the process ---------------------------- *)
VARIABLES config, pc, logger, tasks, loaded, output, ti, ii, content, calls, exit_code,
          request, result

vars == <<config, pc, logger, tasks, loaded, output, ti, ii, content, calls, exit_code,
          request, result>>

Init ==
    /\ config \in Configs
    /\ pc = "startup"
    /\ logger = DefaultLogger
    /\ tasks = <<>>
    /\ loaded = <<>>
    /\ output = <<>>
    /\ ti = 0
    /\ ii = 0
    /\ content = <<>>
    /\ calls = <<>>
    /\ exit_code = <<>>
    /\ request = NoRequest
    /\ result = Return(None, <<>>)

\* exit(n): the process status is n modulo 256.
exit(n) == <<n % 256>>

\* An exception that no handler catches ends the interpreter with status 1.
Uncaught == <<1>>

\* The loaded object is installed as the logger whatever its type.
StartupLogger_install ==
    /\ pc = "startup"
    /\ IF "LOGGER" \in DOMAIN config
       THEN \E r \in {load(config["LOGGER"], <<>>, {})} :
            /\ loaded' = loaded \o r.events
            /\ IF r.raised
               THEN /\ pc' = "crashed"
                    /\ exit_code' = Uncaught
                    /\ UNCHANGED logger
               ELSE /\ pc' = "tasks"
                    /\ logger' = r.value
                    /\ UNCHANGED exit_code
       ELSE /\ pc' = "tasks"
            /\ UNCHANGED <<loaded, logger, exit_code>>
    /\ UNCHANGED <<config, tasks, output, ti, ii, content, calls, request, result>>

\* startup, lines 159-162: the optional logger.
StartupLogger ==
    /\ pc = "startup"
    /\ IF "LOGGER" \in DOMAIN config
       THEN \E r \in {load(config["LOGGER"], <<>>, {})} :
            /\ loaded' = loaded \o r.events
            /\ IF r.raised
               THEN /\ pc' = "crashed"
                    /\ exit_code' = Uncaught
                    /\ UNCHANGED logger
               ELSE /\ pc' = "tasks"
                    /\ logger' = IF issubclass_type(r.value, "LoggerBase") THEN r.value ELSE logger
                    /\ UNCHANGED exit_code
       ELSE /\ pc' = "tasks"
            /\ UNCHANGED <<loaded, logger, exit_code>>
    /\ UNCHANGED <<config, tasks, output, ti, ii, content, calls, request, result>>

\* get_tasks_from_config prints the error and returns no tasks instead of
\* leaving the process.
StartupTasks_continue ==
    /\ pc = "tasks"
    /\ IF "TASKS" \in DOMAIN config
       THEN \E r \in {build(config["TASKS"])} :
            /\ loaded' = loaded \o r.events
            /\ IF r.raised
               THEN /\ output' = Append(output, Msg(r.exc, r.key))
                    /\ pc' = "execute"
                    /\ UNCHANGED <<tasks, exit_code>>
               ELSE /\ tasks' = r.value
                    /\ pc' = "execute"
                    /\ UNCHANGED <<output, exit_code>>
       ELSE /\ output' = Append(output, Msg("", "No tasks in config file."))
            /\ pc' = "execute"
            /\ UNCHANGED <<tasks, loaded, exit_code>>
    /\ UNCHANGED <<config, logger, ti, ii, content, calls, request, result>>

\* A configuration without a task list ends the process like a failed build.
StartupTasks_required ==
    /\ pc = "tasks"
    /\ IF "TASKS" \in DOMAIN config
       THEN \E r \in {build(config["TASKS"])} :
            /\ loaded' = loaded \o r.events
            /\ IF r.raised
               THEN /\ output' = Append(output, Msg(r.exc, r.key))
                    /\ pc' = "exited"
                    /\ exit_code' = exit(-1)
                    /\ UNCHANGED tasks
               ELSE /\ tasks' = r.value
                    /\ pc' = "execute"
                    /\ UNCHANGED <<output, exit_code>>
       ELSE /\ output' = Append(output, Msg("", "No tasks in config file."))
            /\ pc' = "exited"
            /\ exit_code' = exit(-1)
            /\ UNCHANGED <<tasks, loaded>>
    /\ UNCHANGED <<config, logger, ti, ii, content, calls, request, result>>

\* startup, lines 164-168, with get_tasks_from_config.
StartupTasks ==
    /\ pc = "tasks"
    /\ IF "TASKS" \in DOMAIN config
       THEN \E r \in {build(config["TASKS"])} :
            /\ loaded' = loaded \o r.events
            /\ IF r.raised
               THEN /\ output' = Append(output, Msg(r.exc, r.key))
                    /\ pc' = "exited"
                    /\ exit_code' = exit(-1)
                    /\ UNCHANGED tasks
               ELSE /\ tasks' = r.value
                    /\ pc' = "execute"
                    /\ UNCHANGED <<output, exit_code>>
       ELSE /\ output' = Append(output, Msg("", "No tasks in config file."))
            /\ pc' = "execute"
            /\ UNCHANGED <<tasks, loaded, exit_code>>
    /\ UNCHANGED <<config, logger, ti, ii, content, calls, request, result>>

\* @log_exception (broker.loggers): does an exception raised by the wrapped
\* call reach the caller?  It is caught and logged at the task boundary.
log_exception_propagates(raised) == FALSE

\* A stage that raised is logged and the task goes on with its next stage.
AfterStage_resume(raised, next_pc) ==
    /\ pc' = next_pc
    /\ output' = IF raised THEN Append(output, Msg("logged", "")) ELSE output
    /\ UNCHANGED exit_code

\* The end of Task.execute after a stage has or has not raised.
AfterStage(raised, next_pc) ==
    IF raised
    THEN IF log_exception_propagates(raised)
         THEN /\ pc' = "crashed"
              /\ exit_code' = Uncaught
              /\ UNCHANGED output
         ELSE /\ pc' = "execute"
              /\ output' = Append(output, Msg("logged", ""))
              /\ UNCHANGED exit_code
    ELSE /\ pc' = next_pc
         /\ UNCHANGED <<output, exit_code>>

\* if self.__interceptors: (None and the empty list are both false)
HasInterceptors(task) == task.has_interceptors /\ Len(task.interceptors) > 0

\* The process reports failed tasks in its exit status.
RunnerNext_status ==
    /\ pc = "execute"
    /\ IF ti < Len(tasks)
       THEN /\ ti' = ti + 1
            /\ pc' = "pull"
            /\ UNCHANGED exit_code
       ELSE /\ pc' = "done"
            /\ exit_code' = IF \E k \in 1..Len(calls) : calls[k].raised THEN exit(1) ELSE exit(0)
            /\ UNCHANGED ti
    /\ UNCHANGED <<config, logger, tasks, loaded, output, ii, content, calls, request, result>>

\* The runner loop walks the list from its end.
RunnerNext_reversed ==
    /\ pc = "execute"
    /\ IF ti # 1 /\ tasks # <<>>
       THEN /\ ti' = IF ti = 0 THEN Len(tasks) ELSE ti - 1
            /\ pc' = "pull"
            /\ UNCHANGED exit_code
       ELSE /\ pc' = "done"
            /\ exit_code' = exit(0)
            /\ UNCHANGED ti
    /\ UNCHANGED <<config, logger, tasks, loaded, output, ii, content, calls, request, result>>

\* The runner loop gives up after a task that failed.
RunnerNext_stop ==
    /\ pc = "execute"
    /\ IF ti < Len(tasks) /\ (calls = <<>> \/ ~calls[Len(calls)].raised)
       THEN /\ ti' = ti + 1
            /\ pc' = "pull"
            /\ UNCHANGED exit_code
       ELSE /\ pc' = "done"
            /\ exit_code' = exit(0)
            /\ UNCHANGED ti
    /\ UNCHANGED <<config, logger, tasks, loaded, output, ii, content, calls, request, result>>

\* A task that failed is executed a second time before the next one.
RunnerNext_retry ==
    /\ pc = "execute"
    /\ IF /\ ti >= 1
          /\ calls[Len(calls)].raised
          /\ Cardinality({k \in 1..Len(calls) : calls[k].task = ti /\ calls[k].op = "pull"}) < 2
       THEN /\ pc' = "pull"
            /\ UNCHANGED <<ti, exit_code>>
       ELSE IF ti < Len(tasks)
       THEN /\ ti' = ti + 1
            /\ pc' = "pull"
            /\ UNCHANGED exit_code
       ELSE /\ pc' = "done"
            /\ exit_code' = exit(0)
            /\ UNCHANGED ti
    /\ UNCHANGED <<config, logger, tasks, loaded, output, ii, content, calls, request, result>>

\* execute(tasks), lines 145-147: the loop takes the next task, or startup
\* returns and the process ends normally.
RunnerNext ==
    /\ pc = "execute"
    /\ IF ti < Len(tasks)
       THEN /\ ti' = ti + 1
            /\ pc' = "pull"
            /\ UNCHANGED exit_code
       ELSE /\ pc' = "done"
            /\ exit_code' = exit(0)
            /\ UNCHANGED ti
    /\ UNCHANGED <<config, logger, tasks, loaded, output, ii, content, calls, request, result>>

\* The push is made only when there are interceptors.
TaskPull_push_in_if ==
    /\ pc = "pull"
    /\ \E raised \in BOOLEAN :
         /\ content' = IF raised THEN content ELSE pull(tasks[ti].source)
         /\ calls' = Append(calls, Call(ti, "pull", tasks[ti].source, <<>>,
                                        IF raised THEN <<>> ELSE content', raised))
         /\ ii' = 1
         /\ AfterStage(raised, IF HasInterceptors(tasks[ti]) THEN "transform" ELSE "execute")
    /\ UNCHANGED <<config, logger, tasks, loaded, ti, request, result>>

\* Task.execute, line 20: content = self.__source.pull()
TaskPull ==
    /\ pc = "pull"
    /\ \E raised \in BOOLEAN :
         /\ content' = IF raised THEN content ELSE pull(tasks[ti].source)
         /\ calls' = Append(calls, Call(ti, "pull", tasks[ti].source, <<>>, IF raised THEN <<>> ELSE content', raised))
         /\ ii' = 1
         /\ AfterStage(raised, IF HasInterceptors(tasks[ti]) THEN "transform" ELSE "push")
    /\ UNCHANGED <<config, logger, tasks, loaded, ti, request, result>>

\* The interceptors are applied from the last to the first.
TaskTransform_reversed ==
    /\ pc = "transform"
    /\ \E raised \in BOOLEAN :
         /\ content' = IF raised THEN content
                       ELSE transform(tasks[ti].interceptors[Len(tasks[ti].interceptors) + 1 - ii],
                                      content)
         /\ calls' = Append(calls, Call(ti, "transform",
                                        tasks[ti].interceptors[Len(tasks[ti].interceptors) + 1 - ii],
                                        content, IF raised THEN <<>> ELSE content', raised))
         /\ ii' = ii + 1
         /\ AfterStage(raised, IF ii < Len(tasks[ti].interceptors) THEN "transform" ELSE "push")
    /\ UNCHANGED <<config, logger, tasks, loaded, ti, request, result>>

\* Task.transform_content, lines 26-27: one iteration of the loop; leaving
\* the loop returns the content to execute (line 22).
TaskTransform ==
    /\ pc = "transform"
    /\ \E raised \in BOOLEAN :
         /\ content' = IF raised THEN content
                       ELSE transform(tasks[ti].interceptors[ii], content)
         /\ calls' = Append(calls, Call(ti, "transform", tasks[ti].interceptors[ii], content,
                                        IF raised THEN <<>> ELSE content', raised))
         /\ ii' = ii + 1
         /\ AfterStage(raised, IF ii < Len(tasks[ti].interceptors) THEN "transform" ELSE "push")
    /\ UNCHANGED <<config, logger, tasks, loaded, ti, request, result>>

\* Task.execute, line 23: self.__destination.push(content)
TaskPush ==
    /\ pc = "push"
    /\ \E raised \in BOOLEAN :
         /\ calls' = Append(calls, Call(ti, "push", tasks[ti].destination, content, <<>>, raised))
         /\ AfterStage(raised, "execute")
    /\ UNCHANGED <<config, logger, tasks, loaded, ti, ii, content, request, result>>

Next ==
    \/ StartupLogger
    \/ StartupTasks
    \/ RunnerNext
    \/ TaskPull
    \/ TaskTransform
    \/ TaskPush

Spec == Init /\ [][Next]_vars

(* ----------------- the class loader called on its own ------------------ *)
InitLoader ==
    /\ config = [name |-> "config"]
    /\ pc = "load"
    /\ logger = DefaultLogger
    /\ tasks = <<>>
    /\ loaded = <<>>
    /\ output = <<>>
    /\ ti = 0
    /\ ii = 0
    /\ content = <<>>
    /\ calls = <<>>
    /\ exit_code = <<>>
    /\ request \in LoadRequests
    /\ result = Return(None, <<>>)

\* One call ClassLoader.load(full_class_name, *args, **kwargs).
ClassLoaderLoad ==
    /\ pc = "load"
    /\ result' = load(request.id, request.args, request.kwargs)
    /\ pc' = "loaded"
    /\ UNCHANGED <<config, logger, tasks, loaded, output, ti, ii, content, calls,
                   exit_code, request>>

\* One call ClassLoader.__get_module_name_and_class_name(full_class_name).
ClassLoaderSplit ==
    /\ pc = "load"
    /\ result' = Return(get_module_name_and_class_name(request.id), <<>>)
    /\ pc' = "split"
    /\ UNCHANGED <<config, logger, tasks, loaded, output, ti, ii, content, calls,
                   exit_code, request>>

NextLoader ==
    \/ ClassLoaderLoad
    \/ ClassLoaderSplit

SpecLoader == InitLoader /\ [][NextLoader]_vars

(* ------------------------------ properties ----------------------------- *)
\* The calls made on the plugins of task t, in order.
CallsOf(t) == SelectSeq(calls, LAMBDA c : c.task = t)

\* Some stage of task t raised.
Failed(t) == \E k \in 1..Len(calls) : calls[k].task = t /\ calls[k].raised

\* Task.execute of task t has returned.
Finished(t) == ti > t \/ (ti = t /\ pc \in {"execute", "done"})

\* The runner is past get_tasks_from_config.
PastBuild == pc \in {"execute", "pull", "transform", "push", "done", "exited"}

\* Building the configured task list fails.
BuildFails == "TASKS" \in DOMAIN config /\ build(config["TASKS"]).raised

\* The position of the specification at which the build stops.
FailingSpec ==
    CHOOSE k \in 1..Len(config["TASKS"]) :
        /\ build(SubSeq(config["TASKS"], 1, k)).raised
        /\ ~build(SubSeq(config["TASKS"], 1, k - 1)).raised

\* The endpoint constructions performed so far (an endpoint is constructed
\* with its specification as positional argument).
EndpointConstructions ==
    {i \in 1..Len(loaded) : loaded[i].op = "construct" /\ Len(loaded[i].args) = 1}

\* C1: failure isolation.  A raise of pull, transform or push never crashes
\* the process: the task ends, control is back in the runner loop, and when
\* the run is done every task of the list, also those after a failed one,
\* has been executed.
C1_FailureIsolation ==
    /\ (\E k \in 1..Len(calls) : calls[k].raised) => pc # "crashed"
    /\ (calls # <<>> /\ calls[Len(calls)].raised) =>
          (pc \in {"execute", "pull", "done"} /\ Finished(calls[Len(calls)].task))
    /\ pc = "done" =>
          \A i \in 1..Len(tasks) : \A j \in 1..Len(tasks) :
             (i < j /\ Failed(i)) => (CallsOf(j) # <<>> /\ CallsOf(j)[1].op = "pull")

\* A run in which the first of two tasks failed and the second one pushed.
C1_Witness ==
    /\ pc = "done"
    /\ Len(tasks) = 2
    /\ Failed(1)
    /\ \E k \in 1..Len(calls) : calls[k].task = 2 /\ calls[k].op = "push" /\ ~calls[k].raised

\* C2: when building the task list fails, at whatever position, the process
\* ends with a non-zero status and no pull, transform or push is ever
\* called; when the failure is a missing destination key, the endpoints
\* constructed are those of the earlier tasks and the source of the failing
\* one, so its destination is never constructed.
C2_BuildFailureIsFatal ==
    (PastBuild /\ BuildFails) =>
        /\ pc = "exited"
        /\ exit_code # <<>> /\ exit_code[1] # 0
        /\ calls = <<>>
        /\ tasks = <<>>
        /\ ("destination" \notin DOMAIN config["TASKS"][FailingSpec]
            /\ output[Len(output)] = Msg("TaskBuilderException", "destination"))
           => Cardinality(EndpointConstructions) = 2 * (FailingSpec - 1) + 1

\* A valid task followed by one without destination: the build fails at the
\* second specification after constructing three endpoints.
C2_Witness ==
    /\ pc = "exited"
    /\ Len(config["TASKS"]) = 2
    /\ "destination" \notin DOMAIN config["TASKS"][2]
    /\ output = <<Msg("TaskBuilderException", "destination")>>
    /\ Cardinality(EndpointConstructions) = 3
    /\ exit_code = <<255>>

\* Some specification of the configured list lacks source or destination.
SomeSpecLacksKey ==
    /\ "TASKS" \in DOMAIN config
    /\ \E k \in 1..Len(config["TASKS"]) :
          "source" \notin DOMAIN config["TASKS"][k] \/ "destination" \notin DOMAIN config["TASKS"][k]

\* The error get_tasks_from_config printed.
BuildError == output[Len(output)]

\* The first thing to go wrong in the build is a missing source key, or a
\* missing destination key after the source of that specification was built.
MissingKeyComesFirst ==
    \/ "source" \notin DOMAIN config["TASKS"][FailingSpec]
    \/ /\ "destination" \notin DOMAIN config["TASKS"][FailingSpec]
       /\ ~build_source_endpoint(config["TASKS"][FailingSpec]["source"],
                                 task_name(config["TASKS"][FailingSpec])).raised

\* C3 as stated: whenever some specification of the list lacks source or
\* destination, build fails with the TaskBuilderException that names a
\* missing key, and no task list is returned.
C3_AsStated ==
    (PastBuild /\ SomeSpecLacksKey) =>
        /\ pc = "exited"
        /\ tasks = <<>>
        /\ BuildError.exc = "TaskBuilderException"
        /\ BuildError.key \in {"source", "destination"}
        /\ \E k \in 1..Len(config["TASKS"]) : BuildError.key \notin DOMAIN config["TASKS"][k]

\* C3 amended: whenever some specification of the list lacks source or
\* destination, build raises and no task list is returned, not even the
\* tasks of earlier valid specifications; the error is the
\* TaskBuilderException naming the missing key when that key is the first
\* thing to go wrong in list order (source key, source plugin, destination
\* key), and the error of the earlier failure otherwise.
C3_MissingKeyFailsBuild ==
    (PastBuild /\ SomeSpecLacksKey) =>
        /\ pc = "exited"
        /\ tasks = <<>>
        /\ output # <<>>
        /\ MissingKeyComesFirst =>
              BuildError = Msg("TaskBuilderException",
                               IF "source" \notin DOMAIN config["TASKS"][FailingSpec]
                               THEN "source" ELSE "destination")

\* A valid task followed by a specification without source key.
C3_Witness ==
    /\ pc = "exited"
    /\ Len(config["TASKS"]) = 2
    /\ DOMAIN config["TASKS"][1] = {"source", "destination"}
    /\ "source" \notin DOMAIN config["TASKS"][2]
    /\ FailingSpec = 2
    /\ output = <<Msg("TaskBuilderException", "source")>>
    /\ tasks = <<>>

\* The type name of an identifier: what follows its last separator.
ClassOf(id) == SubSeq(id, LastSeparator(id) + 1, Len(id))

\* The interceptor identifiers configured for task t (none when the key is absent).
ConfiguredInterceptors(t) ==
    IF "interceptors" \in DOMAIN config["TASKS"][t] THEN config["TASKS"][t]["interceptors"]
    ELSE <<>>

\* Task t has returned from execute and none of its stages raised.
Succeeded(t) == Finished(t) /\ ~Failed(t)

\* C4: a task with N >= 1 interceptors whose stages do not raise makes the
\* calls pull, transform 1 .. transform N, push, once each: transform k is
\* called on the k-th configured interceptor with what the previous stage
\* returned, returns that interceptor's transformation of it, and push
\* receives what transform N returned.
C4_TransformsInOrder ==
    \A t \in 1..Len(tasks) :
        (Succeeded(t) /\ Len(ConfiguredInterceptors(t)) >= 1) =>
            LET cs == CallsOf(t)
                ids == ConfiguredInterceptors(t)
                N == Len(ids)
            IN /\ Len(cs) = N + 2
               /\ cs[1].op = "pull"
               /\ \A k \in 1..N :
                     /\ cs[k + 1].op = "transform"
                     /\ cs[k + 1].on.cls = ClassOf(ids[k])
                     /\ cs[k + 1].arg = cs[k].res
                     /\ cs[k + 1].res = transform([cls |-> ClassOf(ids[k])], cs[k].res)
               /\ cs[N + 2].op = "push"
               /\ cs[N + 2].arg = cs[N + 1].res

\* The task with interceptors [A, B] pushed B.transform(A.transform(pulled)).
C4_Witness ==
    \E t \in 1..Len(tasks) :
        /\ Succeeded(t)
        /\ ConfiguredInterceptors(t) = <<Id(<<"m">>, <<"A">>), Id(<<"m">>, <<"B">>)>>
        /\ CallsOf(t)[4].op = "push"
        /\ CallsOf(t)[4].arg = <<<<"S">>, <<"A">>, <<"B">>>>

\* C5: a task without interceptors (key absent, or an empty list) whose
\* stages do not raise makes exactly the calls pull and push, no transform,
\* and push receives the content pull returned.
C5_NoInterceptorsPushesPulled ==
    \A t \in 1..Len(tasks) :
        (Succeeded(t) /\ ConfiguredInterceptors(t) = <<>>) =>
            LET cs == CallsOf(t) IN
            /\ Len(cs) = 2
            /\ cs[1].op = "pull"
            /\ cs[2].op = "push"
            /\ cs[2].arg = cs[1].res
            /\ cs[2].arg = pull(tasks[t].source)

\* A run of a task with an empty interceptor list and one without the key.
C5_Witness ==
    /\ pc = "done"
    /\ Len(tasks) = 2
    /\ Succeeded(1) /\ Succeeded(2)
    /\ \E t \in 1..2 : "interceptors" \notin DOMAIN config["TASKS"][t]
    /\ \E t \in 1..2 : /\ "interceptors" \in DOMAIN config["TASKS"][t]
                       /\ config["TASKS"][t]["interceptors"] = <<>>
    /\ \A t \in 1..2 : CallsOf(t)[2].arg = <<<<"S">>>>

\* get_tasks_from_config returned a task list.
Built == "TASKS" \in DOMAIN config /\ pc \in {"execute", "pull", "transform", "push", "done"}

\* C6: the built list has one Task per specification, in specification
\* order (task t holds the endpoints built from specification t), and the
\* interceptors of each Task are one instance per configured identifier, in
\* configuration order.
C6_BuildKeepsOrder ==
    Built =>
        /\ Len(tasks) = Len(config["TASKS"])
        /\ \A t \in 1..Len(tasks) :
              /\ tasks[t].source.args = <<config["TASKS"][t]["source"]>>
              /\ tasks[t].source.cls = ClassOf(config["TASKS"][t]["source"]["class"])
              /\ tasks[t].destination.args = <<config["TASKS"][t]["destination"]>>
              /\ tasks[t].destination.cls = ClassOf(config["TASKS"][t]["destination"]["class"])
              /\ tasks[t].has_interceptors = ("interceptors" \in DOMAIN config["TASKS"][t])
              /\ Len(tasks[t].interceptors) = Len(ConfiguredInterceptors(t))
              /\ \A k \in 1..Len(tasks[t].interceptors) :
                    tasks[t].interceptors[k].cls = ClassOf(ConfiguredInterceptors(t)[k])

\* Two different tasks built, the second with interceptors [A, B].
C6_Witness ==
    /\ Built
    /\ Len(tasks) = 2
    /\ tasks[1].source # tasks[2].source
    /\ ConfiguredInterceptors(2) = <<Id(<<"m">>, <<"A">>), Id(<<"m">>, <<"B">>)>>
    /\ tasks[2].interceptors[1].cls = <<"A">>
    /\ tasks[2].interceptors[2].cls = <<"B">>

\* C7: once the task list is built the process neither crashes nor exits
\* early, it can always take its next step until it is done, and when it is
\* done every task has been executed and the exit status is 0, however many
\* tasks raised.
C7_BuiltRunExitsZero ==
    Built =>
        /\ pc # "done" => (exit_code = <<>> /\ ENABLED Next)
        /\ pc = "done" =>
              /\ exit_code = <<0>>
              /\ ti = Len(config["TASKS"])
              /\ \A t \in 1..Len(config["TASKS"]) :
                    \E k \in 1..Len(calls) : calls[k].task = t /\ calls[k].op = "pull"

\* A finished run of two tasks that both failed.
C7_Witness ==
    /\ pc = "done"
    /\ Len(tasks) = 2
    /\ Failed(1) /\ Failed(2)
    /\ exit_code = <<0>>

\* The positions of the pull calls made for task t.
Pulls(t) == {k \in 1..Len(calls) : calls[k].task = t /\ calls[k].op = "pull"}

\* C8: the tasks are executed one after the other in list order, each once:
\* the calls of a task come after all calls of the tasks before it, every
\* call of task t is made on a plugin of the t-th built task, every started
\* task was pulled exactly once and first of all, and when the run is done
\* every task of the list has been.
C8_SequentialInOrder ==
    /\ \A k \in 1..Len(calls) : \A l \in 1..Len(calls) :
          k < l => calls[k].task <= calls[l].task
    /\ \A k \in 1..Len(calls) :
          /\ calls[k].task \in 1..ti
          /\ calls[k].on \in {tasks[calls[k].task].source, tasks[calls[k].task].destination}
                               \cup Range(tasks[calls[k].task].interceptors)
    /\ \A t \in 1..Len(tasks) :
          /\ Cardinality(Pulls(t)) <= 1
          /\ CallsOf(t) # <<>> => CallsOf(t)[1].op = "pull"
          /\ (t < ti \/ pc = "done") => Cardinality(Pulls(t)) = 1

\* A finished run of two different tasks.
C8_Witness ==
    /\ pc = "done"
    /\ Len(tasks) = 2
    /\ tasks[1] # tasks[2]
    /\ Pulls(1) = {1}
    /\ Len(CallsOf(1)) >= 2
    /\ Len(CallsOf(2)) >= 2

\* The identifier of the request has no separator.
NoSeparator == \A i \in 1..Len(request.id) : request.id[i] # "."

\* C9: ClassLoader.load of an identifier without '.' raises the
\* ClassLoaderException for a malformed name and has done nothing before: no
\* import, no attribute lookup, no construction.
C9_NoSeparatorFailsBeforeLoading ==
    (pc = "loaded" /\ NoSeparator) =>
        /\ result.raised
        /\ result.exc = "ClassLoaderException"
        /\ result.key = "name"
        /\ result.events = <<>>

\* The identifier "S", the name of a class of module m, was refused.
C9_Witness ==
    /\ pc = "loaded"
    /\ request.id = <<"S">>
    /\ request.args # <<>>
    /\ result = Raise("ClassLoaderException", "name", <<>>)

\* The namespace of the request can be imported and has no attribute of the
\* requested name.
TypeAbsentFromNamespace ==
    /\ ~NoSeparator
    /\ SubSeq(request.id, 1, LastSeparator(request.id) - 1) \in Modules
    /\ \A a \in ModuleAttrs : a.name # ClassOf(request.id)

\* C10: when the namespace loads and does not contain the named type,
\* ClassLoader.load returns None: it raises nothing and constructs nothing
\* (it imported the module and looked the name up, no more).
C10_AbsentTypeReturnsNone ==
    (pc = "loaded" /\ TypeAbsentFromNamespace) =>
        /\ ~result.raised
        /\ result.value = None
        /\ \A i \in 1..Len(result.events) : result.events[i].op # "construct"
        /\ Len(result.events) = 2

\* m.Z: module m is imported, Z is looked up in it and not found.
C10_Witness ==
    /\ pc = "loaded"
    /\ request.id = <<"m", ".", "Z">>
    /\ result = Return(None, <<LoadEvent("import", <<"m">>, <<>>, {}),
                               LoadEvent("hasattr", <<"Z">>, <<>>, {})>>)

\* The class the request names, when its namespace loads and has it.
RequestedClass == CHOOSE a \in ModuleAttrs : a.name = ClassOf(request.id)

\* The request names a class that is found.
TypeFound ==
    /\ ~NoSeparator
    /\ SubSeq(request.id, 1, LastSeparator(request.id) - 1) \in Modules
    /\ \E a \in ModuleAttrs : a.name = ClassOf(request.id) /\ a.isclass

\* The constructor of the requested class does not accept the arguments of
\* the request.
ArgumentMismatch ==
    \/ Len(request.args) \notin RequestedClass.nargs
    \/ (~RequestedClass.varkw /\ \E p \in request.kwargs : p[1] \notin RequestedClass.kwnames)

\* C11: when the named type is found and its construction fails, for an
\* argument mismatch or inside the plugin, ClassLoader.load raises
\* ClassLoaderException with the message of the original failure; whenever a
\* call that reached the construction raises, it raises ClassLoaderException.
C11_ConstructionFailureIsWrapped ==
    pc = "loaded" =>
        /\ (TypeFound /\ ArgumentMismatch) =>
              (result.raised /\ result.exc = "ClassLoaderException"
               /\ result.key = "__init__() got unexpected arguments")
        /\ (TypeFound /\ ~ArgumentMismatch /\ RequestedClass.raises) =>
              (result.raised /\ result.exc = "ClassLoaderException"
               /\ result.key = "plugin failed")
        /\ (result.raised /\ result.events # <<>>
            /\ result.events[Len(result.events)].op = "construct") =>
              result.exc = "ClassLoaderException"

\* m.S constructed without the positional argument it requires.
C11_Witness ==
    /\ pc = "loaded"
    /\ request.id = <<"m", ".", "S">>
    /\ request.args = <<>>
    /\ result.raised
    /\ result.exc = "ClassLoaderException"
    /\ result.key = "__init__() got unexpected arguments"
    /\ result.events[3].op = "construct"

\* The loading steps of the task builder: those after the logger's.
BuildEvents ==
    SubSeq(loaded,
           (IF "LOGGER" \in DOMAIN config
            THEN Len(load(config["LOGGER"], <<>>, {}).events) ELSE 0) + 1,
           Len(loaded))

\* The endpoints constructed so far for the specification the build stopped at:
\* none, its source, or its source and its destination.
EndpointsOfFailingSpec == Cardinality(EndpointConstructions) - 2 * (FailingSpec - 1)

\* The bases of the class of a construction step.
BasesOf(event) == (CHOOSE a \in ModuleAttrs : a.name = event.id).bases

\* The build stopped right after constructing a plugin.
StoppedAtPlugin ==
    /\ pc = "exited"
    /\ BuildEvents # <<>>
    /\ BuildEvents[Len(BuildEvents)].op = "construct"
    /\ BuildError.exc # "ClassLoaderException"

\* The plugin the build constructed last.
LastPlugin == BuildEvents[Len(BuildEvents)]

\* C12: every Task holds a source with the Endpoint and SourceEndpoint
\* capabilities, a destination with Endpoint and DestinationEndpoint, and
\* interceptors with Interceptor; and a plugin that was constructed without
\* the capability of its role stops the build with TaskBuilderException,
\* which names Endpoint when the endpoint lacks it, whatever else it lacks.
C12_TasksHoldCapablePlugins ==
    /\ \A t \in 1..Len(tasks) :
          /\ {"EndpointBase", "SourceEndpointBase"} \subseteq tasks[t].source.bases
          /\ {"EndpointBase", "DestinationEndpointBase"} \subseteq tasks[t].destination.bases
          /\ \A k \in 1..Len(tasks[t].interceptors) :
                "InterceptorBase" \in tasks[t].interceptors[k].bases
    /\ (StoppedAtPlugin /\ EndpointsOfFailingSpec = 1
        /\ ~({"EndpointBase", "SourceEndpointBase"} \subseteq BasesOf(LastPlugin))) =>
           BuildError = Msg("TaskBuilderException",
                            IF "EndpointBase" \notin BasesOf(LastPlugin)
                            THEN "EndpointBase" ELSE "SourceEndpointBase")
    /\ (StoppedAtPlugin /\ EndpointsOfFailingSpec = 2 /\ Len(LastPlugin.args) = 1
        /\ ~({"EndpointBase", "DestinationEndpointBase"} \subseteq BasesOf(LastPlugin))) =>
           BuildError = Msg("TaskBuilderException",
                            IF "EndpointBase" \notin BasesOf(LastPlugin)
                            THEN "EndpointBase" ELSE "DestinationEndpointBase")
    /\ (StoppedAtPlugin /\ Len(LastPlugin.args) = 0
        /\ "InterceptorBase" \notin BasesOf(LastPlugin)) =>
           BuildError = Msg("TaskBuilderException", "InterceptorBase")

\* A source class that is a SourceEndpoint but not an Endpoint stops the
\* build at the Endpoint check, after a first task was built.
C12_Witness ==
    /\ StoppedAtPlugin
    /\ FailingSpec = 2
    /\ EndpointsOfFailingSpec = 1
    /\ LastPlugin.id = <<"Q">>
    /\ BuildError = Msg("TaskBuilderException", "EndpointBase")

\* The positions in loaded of the constructions the task builder made.
BuildConstructions ==
    {i \in (Len(loaded) - Len(BuildEvents) + 1)..Len(loaded) : loaded[i].op = "construct"}

\* The explicit args of endpoint specification ep of task specification spec
\* merged with the task's name: task_name is the name, None without a name,
\* unless the explicit args give a task_name themselves.
ExpectedKwargs(spec, ep) ==
    ep["args"]
    \cup (IF \E p \in ep["args"] : p[1] = "task_name" THEN {}
          ELSE {<<"task_name", IF "name" \in DOMAIN spec THEN spec["name"] ELSE "<None>">>})

\* The endpoint specifications of the configured tasks that can be loaded.
ConfiguredEndpoints ==
    UNION { { <<config["TASKS"][t], config["TASKS"][t][r]>> :
                r \in {"source", "destination"} \cap DOMAIN config["TASKS"][t] } :
            t \in 1..Len(config["TASKS"]) }

\* C13 as stated: an endpoint is constructed with its explicit args merged
\* with the task's name and nothing else, an interceptor with no argument:
\* no construction has a positional argument, and the keyword arguments are
\* none or the merged args of a configured endpoint.
C13_AsStated ==
    (PastBuild /\ "TASKS" \in DOMAIN config) =>
        \A i \in BuildConstructions :
            /\ loaded[i].args = <<>>
            /\ \/ loaded[i].kwargs = {}
               \/ \E e \in ConfiguredEndpoints :
                     /\ {"class", "args"} \subseteq DOMAIN e[2]
                     /\ loaded[i].kwargs = ExpectedKwargs(e[1], e[2])

\* The endpoint specification the j-th endpoint construction belongs to:
\* the source (j odd) or destination (j even) of task (j + 1) \div 2.
EndpointSpecOf(j) ==
    config["TASKS"][(j + 1) \div 2][IF j % 2 = 1 THEN "source" ELSE "destination"]

\* C13 amended: an endpoint is constructed with the endpoint specification
\* itself as its one positional argument and, as keyword arguments, exactly
\* the explicit args merged with task_name (the task's name, None without
\* one, the explicit arg of that name winning); an interceptor is
\* constructed with no argument at all.
C13_ConstructorArguments ==
    (PastBuild /\ "TASKS" \in DOMAIN config) =>
        \A i \in BuildConstructions :
            IF i \in EndpointConstructions
            THEN LET j == Cardinality({x \in EndpointConstructions : x <= i}) IN
                 /\ loaded[i].args = <<EndpointSpecOf(j)>>
                 /\ loaded[i].id = ClassOf(EndpointSpecOf(j)["class"])
                 /\ loaded[i].kwargs =
                       ExpectedKwargs(config["TASKS"][(j + 1) \div 2], EndpointSpecOf(j))
            ELSE /\ loaded[i].args = <<>>
                 /\ loaded[i].kwargs = {}
                 /\ Cardinality({x \in EndpointConstructions : x <= i}) % 2 = 0

\* A named task whose source gives task_name itself, and a task with an
\* interceptor: the explicit task_name wins, the interceptor gets nothing.
C13_Witness ==
    /\ Built
    /\ Len(tasks) = 2
    /\ \E t \in 1..2 :
          /\ "name" \in DOMAIN config["TASKS"][t]
          /\ config["TASKS"][t]["name"] = "t"
          /\ tasks[t].source.args = <<config["TASKS"][t]["source"]>>
          /\ tasks[t].source.kwargs = {<<"task_name", "u">>}
          /\ tasks[t].destination.kwargs = {<<"task_name", "t">>}
    /\ \E t \in 1..2 :
          /\ Len(tasks[t].interceptors) = 1
          /\ tasks[t].interceptors[1].args = <<>>
          /\ tasks[t].interceptors[1].kwargs = {}

\* What loading the configured logger gives.
LoggerResolution == load(config["LOGGER"], <<>>, {})

\* The configured logger identifier resolves to an instance of a type that
\* is not a logger.
LoggerLacksCapability ==
    /\ "LOGGER" \in DOMAIN config
    /\ ~LoggerResolution.raised
    /\ ~LoggerResolution.value.none
    /\ ~issubclass_type(LoggerResolution.value, "LoggerBase")

\* C14: when the configured logger resolves to a type without the Logger
\* capability, the default logger stays installed and startup goes on: the
\* process does not crash, the task list is built as without a logger (a
\* failing build ends the process, otherwise the tasks are the built ones),
\* and a run that is done has executed every task.
C14_NonLoggerKeepsDefault ==
    LoggerLacksCapability =>
        /\ logger = DefaultLogger
        /\ pc # "crashed"
        /\ pc = "startup" => (ENABLED StartupLogger /\ loaded = <<>>)
        /\ pc = "tasks" => ENABLED StartupTasks
        /\ (PastBuild /\ "TASKS" \in DOMAIN config) =>
              IF BuildFails THEN pc = "exited" ELSE tasks = build(config["TASKS"]).value
        /\ pc = "done" =>
              \A t \in 1..Len(tasks) : Pulls(t) # {}

\* A finished run of a task under a configured logger that is no logger.
C14_Witness ==
    /\ LoggerLacksCapability
    /\ pc = "done"
    /\ Len(tasks) >= 1
    /\ logger = DefaultLogger
    /\ \E k \in 1..Len(calls) : calls[k].op = "push" /\ ~calls[k].raised

\* The configured logger identifier cannot be resolved: it is malformed, its
\* namespace cannot be loaded, or the namespace lacks the type.
LoggerUnresolvable ==
    /\ "LOGGER" \in DOMAIN config
    /\ IF ~HasSeparator(config["LOGGER"]) THEN TRUE
       ELSE IF import_module(get_module_name_and_class_name(config["LOGGER"])[1]) # "ok"
       THEN TRUE
       ELSE ~hasattr(get_module_name_and_class_name(config["LOGGER"])[1],
                     get_module_name_and_class_name(config["LOGGER"])[2])

\* C15 as stated: a logger identifier that cannot be resolved does not
\* abort startup: the process does not crash, the default logger stays,
\* and the startup goes on to the task list.
C15_UnresolvableLoggerContinues ==
    LoggerUnresolvable =>
        /\ pc # "crashed"
        /\ logger = DefaultLogger
        /\ pc = "startup" => ENABLED StartupLogger

StageCalls(t, op) == SelectSeq(calls, LAMBDA c : c.task = t /\ c.op = op)

\* The interceptors task t holds (none when the attribute is None).
InterceptorsOf(t) == IF tasks[t].has_interceptors THEN tasks[t].interceptors ELSE <<>>

\* C17: a task never retries.  In one run each task's source is pulled at
\* most once and exactly once as soon as the task is past its first stage,
\* its destination is pushed to at most once, and the transform calls are
\* at most one per interceptor: the k-th transform call of the task is made
\* on its k-th interceptor.  A task whose stage raised gets no further call.
C17_NoRetry ==
    \A t \in 1..Len(tasks) :
        /\ Len(StageCalls(t, "pull")) <= 1
        /\ (ti > t \/ (ti = t /\ pc # "pull")) => Len(StageCalls(t, "pull")) = 1
        /\ Len(StageCalls(t, "push")) <= 1
        /\ Len(StageCalls(t, "transform")) <= Len(InterceptorsOf(t))
        /\ \A k \in 1..Len(StageCalls(t, "transform")) :
              StageCalls(t, "transform")[k].on = InterceptorsOf(t)[k]
        /\ (Failed(t) /\ Finished(t)) =>
              /\ CallsOf(t)[Len(CallsOf(t))].raised
              /\ \A k \in 1..(Len(CallsOf(t)) - 1) : ~CallsOf(t)[k].raised

\* A finished run in which the first task failed in its push after one pull
\* and one transform, and the runner went on to the second task.
C17_Witness ==
    /\ pc = "done"
    /\ Len(tasks) = 2
    /\ \E t \in 1..2 :
          /\ Len(InterceptorsOf(t)) = 1
          /\ Len(CallsOf(t)) = 3
          /\ CallsOf(t)[3].op = "push"
          /\ CallsOf(t)[3].raised
    /\ Len(StageCalls(2, "pull")) = 1

\* The operation that follows the k-th call of task t when it returns.
StageAfter(t, k) ==
    IF CallsOf(t)[k].op = "pull"
    THEN (IF Len(InterceptorsOf(t)) > 0 THEN "transform" ELSE "push")
    ELSE IF CallsOf(t)[k].op = "transform"
    THEN (IF k - 1 < Len(InterceptorsOf(t)) THEN "transform" ELSE "push")
    ELSE "none"

\* C19: the stages of a task come in the order pull, transforms, push.  The
\* first call of a task is pull; a call that is followed by another call of
\* the task did not raise, and the follower is the next stage in order; so
\* after a raise no later stage of the task runs, and a push is never made
\* after a pull or a transform that failed.  After a raise the task is over.
C19_StagesInOrder ==
    /\ \A t \in 1..Len(tasks) :
          /\ CallsOf(t) # <<>> => CallsOf(t)[1].op = "pull"
          /\ \A k \in 1..(Len(CallsOf(t)) - 1) :
                /\ ~CallsOf(t)[k].raised
                /\ CallsOf(t)[k + 1].op = StageAfter(t, k)
          /\ \A k \in 1..Len(CallsOf(t)) :
                CallsOf(t)[k].op = "push" =>
                    \A l \in 1..(k - 1) : ~CallsOf(t)[l].raised
    /\ (calls # <<>> /\ calls[Len(calls)].raised) => pc \notin {"transform", "push"}
    /\ pc = "transform" => (calls # <<>> /\ calls[Len(calls)].task = ti
                             /\ StageAfter(ti, Len(CallsOf(ti))) = "transform")
    /\ pc = "push" => (calls # <<>> /\ calls[Len(calls)].task = ti
                        /\ StageAfter(ti, Len(CallsOf(ti))) = "push")

\* A task with two interceptors whose first transform raised: the task is
\* over after two calls, without the second transform and without a push.
C19_Witness ==
    \E t \in 1..Len(tasks) :
        /\ Finished(t)
        /\ Len(InterceptorsOf(t)) = 2
        /\ Len(CallsOf(t)) = 2
        /\ CallsOf(t)[2].op = "transform"
        /\ CallsOf(t)[2].raised
        /\ StageCalls(t, "push") = <<>>

\* C18: an identifier with a separator is split at its last separator: the
\* result has two parts, the type name holds no separator (the namespace
\* may), and namespace, separator, type name joined give the identifier.
C18_SplitsAtLastSeparator ==
    (pc = "split" /\ HasSeparator(request.id)) =>
        /\ Len(result.value) = 2
        /\ \A i \in 1..Len(result.value[2]) : result.value[2][i] # "."
        /\ result.value[1] \o <<".">> \o result.value[2] = request.id

\* The split of an identifier whose namespace holds a separator itself.
C18_Witness ==
    /\ pc = "split"
    /\ request.id = <<"p", ".", "m", ".", "S">>
    /\ result.value = << <<"p", ".", "m">>, <<"S">> >>

\* The last load of the build found the module but not a class of the
\* name in it, so that ClassLoader.load returned None.
BuildLoadedNone ==
    /\ PastBuild
    /\ BuildEvents # <<>>
    /\ LastPlugin.op = "hasattr"

\* C20: a None from ClassLoader.load is fatal to the build in every role.
\* No built task holds None as source, destination or interceptor, and when
\* the last load of the build returned None the build has failed with a
\* TaskBuilderException: the process has exited with status 255, without a
\* task and without a call of pull, transform or push.
C20_NotFoundIsFatal ==
    /\ \A t \in 1..Len(tasks) :
          /\ tasks[t].source # None
          /\ tasks[t].destination # None
          /\ \A k \in 1..Len(InterceptorsOf(t)) : InterceptorsOf(t)[k] # None
    /\ BuildLoadedNone =>
          /\ pc = "exited"
          /\ BuildError.exc = "TaskBuilderException"
          /\ exit_code = <<255>>
          /\ tasks = <<>>
          /\ calls = <<>>

\* The build of the first specification has constructed both endpoints and
\* then failed on an interceptor that its module does not have.
C20_Witness ==
    /\ BuildLoadedNone
    /\ pc = "exited"
    /\ FailingSpec = 1
    /\ Cardinality(EndpointConstructions) = 2
    /\ BuildError.exc = "TaskBuilderException"
====
